---------------------------- MODULE Spec2Model ----------------------------
(***************************************************************************)
(* The glue-qt AI bridge: GlueBridgeServer (src/glue_qt_ai/server.py) on   *)
(* the single-threaded Qt event loop, with the clients of                  *)
(* src/glue_qt_ai/client.py as its environment.                            *)
(*                                                                         *)
(* Python runs one slot at a time.  A slot runs to completion unless it    *)
(* enters a nested event loop: the approval dialog's msg.exec_()           *)
(* (server.py:122) or an event loop entered by executed code.  `stack`     *)
(* holds the suspended slots, innermost last; Qt dispatches events only    *)
(* while the innermost frame is inside such a loop (or no slot runs).      *)
(***************************************************************************)
EXTENDS Integers, Sequences, FiniteSets, TLC

NumConns == 2   \* client connections
MaxCmds  == 2   \* lines, after the auth lines, sent by all clients together
MaxDepth == 3   \* nested slot invocations

Conns  == 1..NumConns
Absent == "absent"          \* a key that is not in a JSON object
Null   == "null"            \* JSON null / Python None
Tokens == {"t1"}            \* token strings a client may be given
Names  == {"x"}             \* identifiers executed code binds
Unbound == "unbound"

VARIABLES
    server,                 \* QTcpServer: "constructed" | "listening" | "stopped"
    approved_connections,   \* self.approved_connections (a list)
    pending_connections,    \* self.pending_connections (a list)
    namespace,              \* self.namespace, restricted to Names
    sys_stdout,             \* sys.stdout: 0 the process's stream, k > 0 a StringIO
    stack,                  \* suspended slot invocations, innermost last
    crashed,                \* the process was aborted
    sock,                   \* per connection: "none" | "open" | "peerclosed" | "closed"
    signals,                \* per connection: readyRead/disconnected are connected
    sent,                   \* per connection: the lines Qt has buffered, in order
    rd,                     \* per connection: lines taken off the buffer so far
    out,                    \* per connection: the responses passed to connection.write
    asked,                  \* per connection: _request_approval calls
    answer,                 \* per connection: what _request_approval returned
    nexec,                  \* per connection: _execute_command calls
    captured_out,           \* per stack position: the StringIO of the call running there
    arrived,                \* the command lines in the order the server received them
    retrying,               \* client.py:137-142: send_command is in its except branch
    raised                  \* exceptions that left a slot, with the function that raised

vars == <<server, approved_connections, pending_connections, namespace,
          sys_stdout, stack, crashed, sock, signals, sent, rd, out, asked, answer, nexec,
          captured_out, arrived, retrying, raised>>

---------------------------------------------------------------------------
(* Python lists *)

Contains(s, x) == \E i \in 1..Len(s) : s[i] = x

\* list.remove(x): drops the first occurrence (the caller checks Contains)
ListRemove(s, x) ==
    LET i == CHOOSE k \in 1..Len(s) : s[k] = x /\ \A j \in 1..(k-1) : s[j] # x
    IN  SubSeq(s, 1, i-1) \o SubSeq(s, i+1, Len(s))

\* dict.get(key, default)
Get(obj, key, default) == IF obj[key] = Absent THEN default ELSE obj[key]

---------------------------------------------------------------------------
(* Lines on the wire.  form: "badutf8" bytes that are not UTF-8, "blank"   *)
(* only whitespace, "notjson" text json.loads rejects, "scalar" JSON that  *)
(* is no object (a number, string, list or null), "object" a JSON object   *)
(* with the keys shown.                                                    *)

\* client.py:47  {'type': 'auth', 'token': self.token}
auth_request(tok) ==
    [form |-> "object", type |-> "auth", code |-> Absent, token |-> tok]

\* client.py:70  {'type': cmd_type, 'code': code}
request(cmd_type, code) ==
    [form |-> "object", type |-> cmd_type, code |-> code, token |-> Absent]

RawLine(form) ==
    [form |-> form, type |-> Absent, code |-> Absent, token |-> Absent]

\* The first line of a client: self.token is None or a token it was given
AuthLines == {auth_request(t) : t \in Tokens \cup {Null}}

\* What a client may send after its auth line.  The codes stand for:
\*   "x=1"  an assignment;        "x"    a name;     "1/0" a raising expression
\*   "exit" sys.exit()            "loop" code that runs a Qt event loop
\*   "stop" app._ai_bridge_server.stop()
\*   "say"  a call that writes to sys.stdout; "loop" also writes, before and
\*          after its event loop
CmdLines ==
    { request("exec", "x=1"), request("eval", "x"), request("eval", "1/0"),
      request("exec", "exit"), request("exec", "loop"), request("exec", "stop"),
      request("exec", "say"),
      RawLine("notjson"), RawLine("scalar"), RawLine("badutf8"), RawLine("blank") }

---------------------------------------------------------------------------
(* Responses.  Two fields are bookkeeping, not JSON keys: re is the index  *)
(* of the client line a response answers (0: the approval step's own       *)
(* response), wire whether the write reached a connected socket.  stdout   *)
(* stands for both captured channels, which the code treats alike.         *)

Response(success, result, error, traceback, message, stdout, re) ==
    [success |-> success, result |-> result, error |-> error,
     traceback |-> traceback, message |-> message, stdout |-> stdout,
     token |-> Absent, re |-> re, wire |-> TRUE]

\* server.py:94
ApprovalResponse == Response(TRUE, Absent, Absent, Absent, "Connection approved", Absent, 0)
\* server.py:100
RejectionResponse ==
    Response(FALSE, Absent, "Connection rejected by user", Absent, Absent, Absent, 0)
\* server.py:139
InvalidJsonResponse(re) ==
    Response(FALSE, Absent, "Invalid JSON", Absent, Absent, Absent, re)
\* server.py:164-178
SuccessResponse(result, stdout, re) ==
    Response(TRUE, result, Absent, Absent, Absent, stdout, re)
\* the failure dict is built with a 'result': None entry as well
FailureResponse_result(error, stdout, re) ==
    Response(FALSE, Null, error, "traceback", Absent, stdout, re)

\* server.py:180-186
FailureResponse(error, stdout, re) ==
    Response(FALSE, Absent, error, "traceback", Absent, stdout, re)

---------------------------------------------------------------------------
(* What eval(code, namespace) / exec(code, namespace) do (server.py:161-   *)
(* 178): kind "ok" returns, "raise" raises an Exception, "exit" raises     *)
(* SystemExit, "loop" runs an event loop and then returns, "stop" calls    *)
(* stop() and then returns.                                                *)

Outcome(kind, result, ns) == [kind |-> kind, result |-> result, ns |-> ns]

RunEval(code, ns) ==
    CASE code = "x"    -> IF ns["x"] = Unbound THEN Outcome("raise", "NameError", ns)
                          ELSE Outcome("ok", ns["x"], ns)
      [] code = "1/0"  -> Outcome("raise", "ZeroDivisionError", ns)
      [] code = "exit" -> Outcome("exit", "SystemExit", ns)
      [] code = "loop" -> Outcome("loop", "0", ns)
      [] code = "stop" -> Outcome("stop", "None", ns)
      [] code = "say"  -> Outcome("ok", "None", ns)
      [] OTHER         -> Outcome("raise", "SyntaxError", ns)   \* "", "x=1"

\* exec(code, dict(self.namespace)): the bindings go to a copy
RunExec_copy(code, ns) ==
    CASE code = ""     -> Outcome("ok", Null, ns)
      [] code = "x=1"  -> Outcome("ok", Null, ns)
      [] code = "x"    -> IF ns["x"] = Unbound THEN Outcome("raise", "NameError", ns)
                          ELSE Outcome("ok", Null, ns)
      [] code = "1/0"  -> Outcome("raise", "ZeroDivisionError", ns)
      [] code = "exit" -> Outcome("exit", "SystemExit", ns)
      [] code = "loop" -> Outcome("loop", Null, ns)
      [] code = "stop" -> Outcome("stop", Null, ns)
      [] code = "say"  -> Outcome("ok", Null, ns)
      [] OTHER         -> Outcome("raise", "SyntaxError", ns)

RunExec(code, ns) ==
    CASE code = ""     -> Outcome("ok", Null, ns)
      [] code = "x=1"  -> Outcome("ok", Null, [ns EXCEPT !["x"] = "1"])
      [] code = "x"    -> IF ns["x"] = Unbound THEN Outcome("raise", "NameError", ns)
                          ELSE Outcome("ok", Null, ns)
      [] code = "1/0"  -> Outcome("raise", "ZeroDivisionError", ns)
      [] code = "exit" -> Outcome("exit", "SystemExit", ns)
      [] code = "loop" -> Outcome("loop", Null, ns)
      [] code = "stop" -> Outcome("stop", Null, ns)
      [] code = "say"  -> Outcome("ok", Null, ns)
      [] OTHER         -> Outcome("raise", "SyntaxError", ns)

\* server.py:148-149, 161, 170: cmd_type defaults to 'exec', code to '';
\* anything but 'eval' is executed as statements
Run(req, ns) ==
    LET cmd_type == Get(req, "type", "exec")
        code     == Get(req, "code", "")
    IN  IF cmd_type = "eval" THEN RunEval(code, ns) ELSE RunExec(code, ns)

\* The text the code of req, which came as line li of connection c, writes to
\* sys.stdout: "all" of it for code that runs no event loop, else what it
\* writes "before" and "after" that loop.  The text is marked with its origin
Text(c, li, part) == [c |-> c, li |-> li, part |-> part]

stdout_of(req, c, li, part) ==
    LET code == Get(req, "code", "")
    IN  IF \/ code = "say" /\ part = "all"
           \/ code = "loop" /\ part \in {"before", "after"}
        THEN <<Text(c, li, part)>> ELSE <<>>

\* write() on the stream sys.stdout names: a StringIO of a call in progress
\* keeps the text
write(cap, stream, text) ==
    IF stream \in DOMAIN cap THEN [cap EXCEPT ![stream] = @ \o text] ELSE cap

\* finally: pass, the saved stream is not put back
restore_skipped(old_stdout, captured) == captured

\* finally: sys.stdout = sys.__stdout__
restore_process(old_stdout, captured) == 0

\* server.py:152, 187-189: finally: sys.stdout = old_stdout
restore(old_stdout, captured) == old_stdout

---------------------------------------------------------------------------
(* The event loop *)

Frame(k, c, old, li) == [k |-> k, c |-> c, old |-> old, li |-> li]

Top == stack[Len(stack)]
Pop == SubSeq(stack, 1, Len(stack) - 1)

\* Qt delivers events: no slot is running, or the innermost one is inside a
\* nested event loop (the dialog, server.py:122; executed code, :163/:172)
Dispatching ==
    /\ ~crashed
    /\ IF stack = <<>> THEN TRUE ELSE Top.k \in {"dlg", "exec"}

\* _on_ready_read(c) is on the stack: Qt does not emit readyRead recursively
InReadyRead(c) == \E i \in 1..Len(stack) : stack[i].k = "rr" /\ stack[i].c = c

\* _execute_command calls in flight
InFlight == Cardinality({i \in 1..Len(stack) : stack[i].k = "exec"})

\* connection.write(...) on a connection whose socket states are s: the call is
\* logged; its bytes go on the wire only if the socket is connected
Written(o, s, c, resp) ==
    [o EXCEPT ![c] = Append(@, [resp EXCEPT !.wire = (s[c] = "open")])]

\* The exception `exc`, raised in function `fn` and caught nowhere, leaves the
\* running slot.  What the Qt binding then does is its own
\* choice: it aborts the process (PyQt) or reports the exception and returns
\* to the event loop (PySide)
Unhandled(fn, exc, c) ==
    \E fatal \in BOOLEAN :
        /\ raised' = raised \cup {[fn |-> fn, exc |-> exc, c |-> c]}
        /\ crashed' = fatal
        /\ stack' = IF fatal THEN stack ELSE Pop

CmdsSent ==
    LET RECURSIVE Sum(_)
        Sum(S) == IF S = {} THEN 0
                  ELSE LET c == CHOOSE d \in S : TRUE
                       IN  (IF Len(sent[c]) > 1 THEN Len(sent[c]) - 1 ELSE 0) + Sum(S \ {c})
    IN  Sum(Conns)

---------------------------------------------------------------------------
(* server.py:28-54: the state after GlueBridgeServer.__init__ *)

Init ==
    /\ server = "constructed"
    /\ approved_connections = <<>>
    /\ pending_connections = <<>>
    /\ namespace = [n \in Names |-> Unbound]
    /\ sys_stdout = 0
    /\ stack = <<>>
    /\ crashed = FALSE
    /\ sock = [c \in Conns |-> "none"]
    /\ signals = [c \in Conns |-> FALSE]
    /\ sent = [c \in Conns |-> <<>>]
    /\ rd = [c \in Conns |-> 0]
    /\ out = [c \in Conns |-> <<>>]
    /\ asked = [c \in Conns |-> 0]
    /\ answer = [c \in Conns |-> "none"]
    /\ nexec = [c \in Conns |-> 0]
    /\ captured_out = [i \in 1..(MaxDepth + 1) |-> <<>>]
    /\ arrived = <<>>
    /\ retrying = FALSE
    /\ raised = {}

\* server.py:56-63
start ==
    /\ ~crashed /\ stack = <<>>
    /\ server = "constructed"
    /\ server' = "listening"
    /\ UNCHANGED <<approved_connections, pending_connections, namespace,
                   sys_stdout, stack, crashed, sock, signals, sent, rd, out,
                   asked, answer, nexec, captured_out, arrived, retrying,
                   raised>>

\* for conn in self.approved_connections: conn.close()
stop_sock_approved == [c \in Conns |->
    IF Contains(approved_connections, c) THEN "closed" ELSE sock[c]]

\* server.py:68-69: conn.close() on every tracked connection
stop_sock == [c \in Conns |->
    IF Contains(approved_connections \o pending_connections, c) THEN "closed" ELSE sock[c]]

\* stop() called by the host (plugin.py:28-29 -> server.py:215-226), from the
\* top-level event loop
stop ==
    /\ ~crashed /\ stack = <<>>
    /\ server # "constructed"
    /\ server' = "stopped"
    /\ sock' = stop_sock
    /\ approved_connections' = <<>>
    /\ pending_connections' = <<>>
    /\ UNCHANGED <<namespace, sys_stdout, stack, crashed, signals, sent, rd,
                   out, asked, answer, nexec, captured_out, arrived, retrying,
                   raised>>

\* server.py:78-85 (and client.py:42-44): a client connects, Qt accepts it and
\* emits newConnection; the slot takes it, appends it to pending_connections
\* and opens the approval dialog, whose exec_() runs a nested event loop
_on_new_connection(c) ==
    /\ Dispatching
    /\ server = "listening"
    /\ sock[c] = "none"
    /\ \A d \in Conns : d < c => sock[d] # "none"
    /\ Len(stack) < MaxDepth
    /\ sock' = [sock EXCEPT ![c] = "open"]
    /\ pending_connections' = Append(pending_connections, c)
    /\ asked' = [asked EXCEPT ![c] = @ + 1]
    /\ stack' = Append(stack, Frame("dlg", c, sys_stdout, 0))
    /\ UNCHANGED <<server, approved_connections, namespace, sys_stdout,
                   crashed, signals, sent, rd, out, answer, nexec,
                   captured_out, arrived, retrying, raised>>

\* the user answers Yes; line 88 is missing, the connection stays in
\* pending_connections
approve_pending ==
    /\ ~crashed /\ stack # <<>> /\ Top.k = "dlg"
    /\ Contains(pending_connections, Top.c)
    /\ answer' = [answer EXCEPT ![Top.c] = "yes"]
    /\ approved_connections' = Append(approved_connections, Top.c)
    /\ signals' = [signals EXCEPT ![Top.c] = TRUE]
    /\ out' = Written(out, sock, Top.c, ApprovalResponse)
    /\ stack' = Pop
    /\ UNCHANGED <<server, pending_connections, namespace, sys_stdout,
                   crashed, sock, sent, rd, asked, nexec, captured_out,
                   arrived, retrying, raised>>

\* server.py:122-123, 87-96: the user answers Yes
approve ==
    /\ ~crashed /\ stack # <<>> /\ Top.k = "dlg"
    /\ Contains(pending_connections, Top.c)
    /\ answer' = [answer EXCEPT ![Top.c] = "yes"]
    /\ pending_connections' = ListRemove(pending_connections, Top.c)
    /\ approved_connections' = Append(approved_connections, Top.c)
    /\ signals' = [signals EXCEPT ![Top.c] = TRUE]
    /\ out' = Written(out, sock, Top.c, ApprovalResponse)
    /\ stack' = Pop
    /\ UNCHANGED <<server, namespace, sys_stdout, crashed, sock, sent, rd,
                   asked, nexec, captured_out, arrived, retrying, raised>>

\* server.py:122-123, 97-103: the user answers No
reject ==
    /\ ~crashed /\ stack # <<>> /\ Top.k = "dlg"
    /\ Contains(pending_connections, Top.c)
    /\ answer' = [answer EXCEPT ![Top.c] = "no"]
    /\ pending_connections' = ListRemove(pending_connections, Top.c)
    /\ out' = Written(out, sock, Top.c, RejectionResponse)
    /\ sock' = [sock EXCEPT ![Top.c] = "closed"]
    /\ stack' = Pop
    /\ UNCHANGED <<server, approved_connections, namespace, sys_stdout,
                   crashed, signals, sent, rd, asked, nexec, captured_out,
                   arrived, retrying, raised>>

\* server.py:88 / :98: the dialog returns for a connection that stop() has
\* meanwhile dropped from pending_connections: list.remove raises ValueError
remove_raises(b) ==
    /\ ~crashed /\ stack # <<>> /\ Top.k = "dlg"
    /\ ~Contains(pending_connections, Top.c)
    /\ answer' = [answer EXCEPT ![Top.c] = IF b THEN "yes" ELSE "no"]
    /\ Unhandled("_on_new_connection", "ValueError", Top.c)
    /\ UNCHANGED <<server, approved_connections, pending_connections,
                   namespace, sys_stdout, sock, signals, sent, rd, out, asked,
                   nexec, captured_out, arrived, retrying>>

\* server.py:125-128 (and client.py:89-94): the peer closes its socket; Qt
\* emits disconnected, which reaches _on_disconnected once it is connected
_on_disconnected(c) ==
    /\ Dispatching
    /\ sock[c] = "open"
    /\ sock' = [sock EXCEPT ![c] = "peerclosed"]
    /\ approved_connections' =
         IF signals[c] /\ Contains(approved_connections, c)
         THEN ListRemove(approved_connections, c) ELSE approved_connections
    /\ UNCHANGED <<server, pending_connections, namespace, sys_stdout, stack,
                   crashed, signals, sent, rd, out, asked, answer, nexec,
                   captured_out, arrived, retrying, raised>>

\* client.py:48 / :72: the client writes a line, its auth message first; Qt
\* buffers it and emits readyRead, which reaches _on_ready_read once it is
\* connected and unless that slot is already running for this connection
sendall(c, line) ==
    /\ Dispatching
    /\ sock[c] = "open"
    /\ IF sent[c] = <<>> THEN line \in AuthLines
       ELSE line \in CmdLines /\ CmdsSent < MaxCmds
    /\ sent' = [sent EXCEPT ![c] = Append(@, line)]
    /\ arrived' = IF sent[c] = <<>> THEN arrived
                  ELSE Append(arrived, [c |-> c, approved |-> Contains(approved_connections, c)])
    /\ IF signals[c] /\ ~InReadyRead(c)
       THEN /\ Len(stack) < MaxDepth
            /\ stack' = Append(stack, Frame("rr", c, sys_stdout, 0))
       ELSE stack' = stack
    /\ UNCHANGED <<server, approved_connections, pending_connections,
                   namespace, sys_stdout, crashed, sock, signals, rd, out,
                   asked, answer, nexec, captured_out, retrying, raised>>

---------------------------------------------------------------------------
(* server.py:130-144: _on_ready_read(c), one iteration of its loop per     *)
(* step.  The slot is the innermost frame and is not inside an event loop, *)
(* so nothing else runs between its steps.                                 *)

Reading == ~crashed /\ stack # <<>> /\ Top.k = "rr"

\* server.py:132: close() drops the buffer; a socket whose peer is gone keeps
\* what it had received
canReadLine(c) == sock[c] # "closed" /\ rd[c] < Len(sent[c])

\* server.py:133: the next line off the buffer, and its index
NextLine(c) == sent[c][rd[c] + 1]
readLine(c) == [rd EXCEPT ![c] = @ + 1]

\* server.py:132: the buffer holds no complete line, the slot returns
ready_read_return ==
    /\ Reading /\ ~canReadLine(Top.c)
    /\ stack' = Pop
    /\ UNCHANGED <<server, approved_connections, pending_connections,
                   namespace, sys_stdout, crashed, sock, signals, sent, rd,
                   out, asked, answer, nexec, captured_out, arrived, retrying,
                   raised>>

\* server.py:133-134: a line that strips to '' is skipped
read_blank ==
    /\ Reading /\ canReadLine(Top.c)
    /\ NextLine(Top.c).form = "blank"
    /\ rd' = readLine(Top.c)
    /\ UNCHANGED <<server, approved_connections, pending_connections,
                   namespace, sys_stdout, stack, crashed, sock, signals, sent,
                   out, asked, answer, nexec, captured_out, arrived, retrying,
                   raised>>

\* server.py:133: .decode('utf-8') is outside the try of line 135
read_undecodable ==
    /\ Reading /\ canReadLine(Top.c)
    /\ NextLine(Top.c).form = "badutf8"
    /\ rd' = readLine(Top.c)
    /\ Unhandled("_on_ready_read", "UnicodeDecodeError", Top.c)
    /\ UNCHANGED <<server, approved_connections, pending_connections,
                   namespace, sys_stdout, sock, signals, sent, out, asked,
                   answer, nexec, captured_out, arrived, retrying>>

\* server.py:136, 138-144: json.loads raises JSONDecodeError
read_invalid_json ==
    /\ Reading /\ canReadLine(Top.c)
    /\ NextLine(Top.c).form = "notjson"
    /\ rd' = readLine(Top.c)
    /\ out' = Written(out, sock, Top.c, InvalidJsonResponse(rd[Top.c] + 1))
    /\ UNCHANGED <<server, approved_connections, pending_connections,
                   namespace, sys_stdout, stack, crashed, sock, signals, sent,
                   asked, answer, nexec, captured_out, arrived, retrying,
                   raised>>

\* server.py:136-137, 148: json.loads returns a number, string, list or None
\* and _execute_command is called with it; request.get raises AttributeError
\* before the try of line 157, and line 138 catches JSONDecodeError only
read_not_object ==
    /\ Reading /\ canReadLine(Top.c)
    /\ NextLine(Top.c).form = "scalar"
    /\ rd' = readLine(Top.c)
    /\ nexec' = [nexec EXCEPT ![Top.c] = @ + 1]
    /\ Unhandled("_execute_command", "AttributeError", Top.c)
    /\ UNCHANGED <<server, approved_connections, pending_connections,
                   namespace, sys_stdout, sock, signals, sent, out, asked,
                   answer, captured_out, arrived, retrying>>

\* server.py:137: the line is a JSON object and goes to _execute_command
Executing(kind) ==
    /\ Reading /\ canReadLine(Top.c)
    /\ NextLine(Top.c).form = "object"
    /\ Run(NextLine(Top.c), namespace).kind = kind
    /\ nexec' = [nexec EXCEPT ![Top.c] = @ + 1]

\* server.py:146-178, 187-189, 141-144: the code returns
execute_ok ==
    /\ Executing("ok")
    /\ rd' = readLine(Top.c)
    /\ namespace' = Run(NextLine(Top.c), namespace).ns
    /\ out' = Written(out, sock, Top.c,
                      SuccessResponse(Run(NextLine(Top.c), namespace).result,
                                      stdout_of(NextLine(Top.c), Top.c, rd[Top.c] + 1, "all"),
                                      rd[Top.c] + 1))
    /\ sys_stdout' = restore(sys_stdout, Len(stack) + 1)
    /\ UNCHANGED <<server, approved_connections, pending_connections, stack,
                   crashed, sock, signals, sent, asked, answer, captured_out,
                   arrived, retrying, raised>>

\* server.py:179-189, 141-144: the code raises an Exception
execute_raises ==
    /\ Executing("raise")
    /\ rd' = readLine(Top.c)
    /\ out' = Written(out, sock, Top.c,
                      FailureResponse(Run(NextLine(Top.c), namespace).result,
                                      stdout_of(NextLine(Top.c), Top.c, rd[Top.c] + 1, "all"),
                                      rd[Top.c] + 1))
    /\ sys_stdout' = restore(sys_stdout, Len(stack) + 1)
    /\ UNCHANGED <<server, approved_connections, pending_connections,
                   namespace, stack, crashed, sock, signals, sent, asked,
                   answer, captured_out, arrived, retrying, raised>>

\* server.py:179, 187-189: SystemExit is not an Exception; the finally
\* restores sys.stdout and the exception leaves _execute_command, then
\* _on_ready_read (line 138 catches JSONDecodeError only)
execute_exits ==
    /\ Executing("exit")
    /\ rd' = readLine(Top.c)
    /\ sys_stdout' = restore(sys_stdout, Len(stack) + 1)
    /\ Unhandled("_execute_command", "SystemExit", Top.c)
    /\ UNCHANGED <<server, approved_connections, pending_connections,
                   namespace, sock, signals, sent, out, asked, answer,
                   captured_out, arrived, retrying>>

\* server.py:152-159, 163/172: the code writes, then enters an event loop;
\* sys.stdout is the call's StringIO, which holds what was written
execute_loops ==
    /\ Executing("loop")
    /\ rd' = readLine(Top.c)
    /\ sys_stdout' = Len(stack) + 1
    /\ captured_out' = [captured_out EXCEPT ![Len(stack) + 1] =
                            stdout_of(NextLine(Top.c), Top.c, rd[Top.c] + 1, "before")]
    /\ stack' = Append(stack, Frame("exec", Top.c, sys_stdout, rd[Top.c] + 1))
    /\ UNCHANGED <<server, approved_connections, pending_connections,
                   namespace, crashed, sock, signals, sent, out, asked,
                   answer, arrived, retrying, raised>>

\* server.py:163/172-178, 187-189, 141-144: that event loop ends, the code
\* writes to what sys.stdout now is and returns; the response carries what
\* the call's own StringIO holds
loop_returns ==
    /\ ~crashed /\ stack # <<>> /\ Top.k = "exec"
    /\ LET cap == write(captured_out, sys_stdout,
                        stdout_of(sent[Top.c][Top.li], Top.c, Top.li, "after"))
       IN  /\ out' = Written(out, sock, Top.c,
                             SuccessResponse(Run(sent[Top.c][Top.li], namespace).result,
                                             cap[Len(stack)], Top.li))
           /\ captured_out' = [cap EXCEPT ![Len(stack)] = <<>>]
    /\ sys_stdout' = restore(Top.old, Len(stack))
    /\ stack' = Pop
    /\ UNCHANGED <<server, approved_connections, pending_connections,
                   namespace, crashed, sock, signals, sent, rd, asked, answer,
                   nexec, arrived, retrying, raised>>

\* server.py:172 running stop() (65-71), then 173-178, 141-144: the response
\* is written to a socket stop() has closed
execute_stops ==
    /\ Executing("stop")
    /\ server' = "stopped"
    /\ sock' = stop_sock
    /\ rd' = readLine(Top.c)
    /\ approved_connections' = <<>>
    /\ pending_connections' = <<>>
    /\ out' = Written(out, stop_sock, Top.c,
                      SuccessResponse(Run(NextLine(Top.c), namespace).result,
                                      stdout_of(NextLine(Top.c), Top.c, rd[Top.c] + 1, "all"),
                                      rd[Top.c] + 1))
    /\ sys_stdout' = restore(sys_stdout, Len(stack) + 1)
    /\ UNCHANGED <<namespace, stack, crashed, signals, sent, asked, answer,
                   captured_out, arrived, retrying, raised>>

---------------------------------------------------------------------------

Next ==
    \/ start
    \/ stop
    \/ \E c \in Conns : _on_new_connection(c)
    \/ approve
    \/ reject
    \/ \E b \in BOOLEAN : remove_raises(b)
    \/ \E c \in Conns : _on_disconnected(c)
    \/ \E c \in Conns, line \in AuthLines \cup CmdLines : sendall(c, line)
    \/ ready_read_return
    \/ read_blank
    \/ read_undecodable
    \/ read_invalid_json
    \/ read_not_object
    \/ execute_ok
    \/ execute_raises
    \/ execute_exits
    \/ execute_loops
    \/ execute_stops
    \/ loop_returns

Spec == Init /\ [][Next]_vars

\* What the event loop guarantees: a slot that is running takes its next
\* step (Python runs it to completion), and a nested event loop comes to its
\* end: an open dialog is answered (server.py:122), executed code that entered
\* an event loop leaves it (server.py:163/172)
Progress ==
    \/ approve
    \/ reject
    \/ \E b \in BOOLEAN : remove_raises(b)
    \/ ready_read_return
    \/ read_blank
    \/ read_undecodable
    \/ read_invalid_json
    \/ read_not_object
    \/ execute_ok
    \/ execute_raises
    \/ execute_exits
    \/ execute_loops
    \/ execute_stops
    \/ loop_returns

LiveSpec == Spec /\ WF_vars(Progress)

---------------------------------------------------------------------------
(* client.py: what the command line client makes of the responses *)

\* client.py:77-87: the responses that reached the peer of c, in order
Wire(c) == SelectSeq(out[c], LAMBDA r : r.wire)

\* client.py:228-240: the exit status of main() run with a code argument on
\* connection c, whose lines 1 and 2 are the auth message and the command.
\* connect() reads the first response (51-63); the recv calls of send() return
\* the next n lines together, and json.loads (75) takes one document only.
main(c, n) ==
    IF ~Wire(c)[1].success THEN 1             \* 63, 238-240: ConnectionRefusedError
    ELSE IF n > 1 THEN 1                      \* 75: JSONDecodeError, caught nowhere
    ELSE IF Wire(c)[2].success THEN 0 ELSE 1  \* 237

---------------------------------------------------------------------------
(* client.py:110-142: one call send_command(code) in a fresh process.  The   *)
(* first attempt (135-136) uses connection 1, the retry (141-142)            *)
(* connection 2.                                                             *)

\* client.py:110: the code argument of the call
CallCodes == {request("exec", "x=1"), request("exec", "loop")}

\* client.py:101-107, 42-44: _connection is None, a BridgeConnection is made
\* and its socket connects; the server accepts it (server.py:78-85)
get_connection(c) ==
    /\ (c = 1 /\ ~retrying) \/ (c = 2 /\ retrying)
    /\ _on_new_connection(c)

\* client.py:46-48: connect() sends the auth message, token None, then waits
\* for the approval response (51)
connect(c) ==
    /\ (c = 1 /\ ~retrying) \/ (c = 2 /\ retrying)
    /\ sent[c] = <<>>
    /\ sendall(c, auth_request(Null))

\* client.py:54-59, 65-72: connect() has read an approval; send() writes the
\* request, the same code in the retry as in the first attempt, then waits
\* for the response (74)
send(c, line) ==
    /\ (c = 1 /\ ~retrying) \/ (c = 2 /\ retrying)
    /\ Len(sent[c]) = 1
    /\ Wire(c) # <<>> /\ Wire(c)[1].re = 0 /\ Wire(c)[1].success
    /\ line \in CallCodes
    /\ (c = 2 /\ Len(sent[1]) = 2) => line = sent[1][2]
    /\ sendall(c, line)

\* client.py:48-63: connect() sent the auth message, read a rejection and
\* raises ConnectionRefusedError, a ConnectionError
Refused(c) ==
    /\ sent[c] # <<>>
    /\ Wire(c) # <<>> /\ Wire(c)[1].re = 0 /\ ~Wire(c)[1].success

\* client.py:43, 81: recv has nothing to return within the timeout, in
\* connect() (51) or in send() (74), and raises socket.timeout, an OSError
TimedOut(c) ==
    \/ Len(sent[c]) = 1 /\ Wire(c) = <<>>
    \/ Len(sent[c]) = 2 /\ Len(Wire(c)) = 1

\* client.py:137-140: the first attempt raised a ConnectionError or an
\* OSError; _connection is dropped and the call goes on to line 141.  The
\* exception being handled keeps the first socket alive, it is not closed.
except_retry ==
    /\ ~retrying
    /\ Refused(1) \/ TimedOut(1)
    /\ retrying' = TRUE
    /\ UNCHANGED <<server, approved_connections, pending_connections,
                   namespace, sys_stdout, stack, crashed, sock, signals, sent,
                   rd, out, asked, answer, nexec, captured_out, arrived,
                   raised>>

\* The call, the server's side of it and the user at the dialogs
ClientNext ==
    \/ start
    \/ \E c \in Conns : get_connection(c)
    \/ \E c \in Conns : connect(c)
    \/ \E c \in Conns, line \in CallCodes : send(c, line)
    \/ except_retry
    \/ approve
    \/ reject
    \/ ready_read_return
    \/ execute_ok
    \/ execute_loops
    \/ loop_returns

ClientSpec == Init /\ [][ClientNext]_vars

---------------------------------------------------------------------------
(* What the claims speak of *)

\* c's auth message has arrived and carries tok
Presents(c, tok) == sent[c] # <<>> /\ sent[c][1].token = tok

\* the approval dialog for c is open
DialogOpen(c) == \E i \in 1..Len(stack) : stack[i].k = "dlg" /\ stack[i].c = c

\* the first thing written to c was an approval / a rejection
WasApproved(c) == out[c] # <<>> /\ out[c][1].re = 0 /\ out[c][1].success
WasRejected(c) == out[c] # <<>> /\ out[c][1].re = 0 /\ ~out[c][1].success
                  /\ out[c][1].error # Absent

\* line i of c is being executed inside a nested event loop
Running(c, i) == \E j \in 1..Len(stack) :
    stack[j].k = "exec" /\ stack[j].c = c /\ stack[j].li = i

\* some response of c answers its line i
Answered(c, i) == \E k \in 1..Len(out[c]) : out[c][k].re = i

\* C1: a connection that presents no token and is approved by the callback
\* gets an approval response that carries a session token, and all approval
\* responses of the server carry the same token.
C1_ApprovalCarriesToken ==
    /\ \A c \in Conns :
         (Presents(c, Null) /\ answer[c] = "yes") =>
             WasApproved(c) /\ out[c][1].token # Absent
    /\ \A c, d \in Conns :
         (WasApproved(c) /\ WasApproved(d)) => out[c][1].token = out[d][1].token

\* C2: once a connection has been approved (so that a session token exists),
\* there is a token whose presentation spares a later connection the approval
\* dialog.  d < c and c's dialog open: d was approved before c was asked.
C2_TokenSkipsCallback ==
    \E t \in Tokens :
        \A c, d \in Conns :
            (d < c /\ WasApproved(d) /\ Presents(c, t)) => ~DialogOpen(c)

\* C3: no connection presents a matching token (none is ever issued), so for
\* every connection the callback is invoked once, and its answer is the
\* outcome: true gives Approved, false gives Rejected.
C3_OutcomeIsCallbackAnswer ==
    \A c \in Conns :
        /\ sock[c] # "none" => asked[c] = 1
        /\ answer[c] = "yes" => signals[c] /\ WasApproved(c)
        /\ answer[c] = "no" => ~signals[c] /\ WasRejected(c)

\* C4: _execute_command is entered only for a connection that is in the
\* approved set at that moment.
C4_ExecuteOnlyApproved ==
    [][\A c \in Conns :
         nexec'[c] # nexec[c] => Contains(approved_connections, c)]_vars

\* C5: a connection the callback rejected has had exactly one response written
\* to it, the rejection, and is closed; none of its lines is ever read or
\* executed.
C5_RejectionWrittenOnceThenClosed ==
    \A c \in Conns :
        answer[c] = "no" =>
            /\ Len(out[c]) = 1 /\ WasRejected(c)
            /\ sock[c] = "closed"
            /\ rd[c] = 0 /\ nexec[c] = 0

\* C6: the auth line (line 1) is never executed: the first response is the
\* approval response and, for a client that sends only commands after it, the
\* k-th response after it answers the k-th command (line k+1).
C6_AuthNotExecuted ==
    \A c \in Conns :
        \A k \in 1..Len(out[c]) :
            /\ out[c][k].re # 1
            /\ (\A i \in 2..Len(sent[c]) : sent[c][i].form = "object")
                 => out[c][k].re = IF k = 1 THEN 0 ELSE k

\* C7: every line that is not valid JSON, once read off an approved connection,
\* has a failure response with an error, and no exception has left the slot
\* that read it.
C7_InvalidJsonAnswered ==
    \A c \in Conns :
        \A i \in 1..rd[c] :
            sent[c][i].form \in {"notjson", "badutf8"} =>
                /\ \E k \in 1..Len(out[c]) :
                     out[c][k].re = i /\ ~out[c][k].success /\ out[c][k].error # Absent
                /\ \A r \in raised : ~(r.c = c /\ r.fn = "_on_ready_read")

\* C8: no exception raised by executed code leaves _execute_command (the
\* AttributeError of line 148 is raised for a request that is no exec or eval
\* request at all): every request handed to it, once its code has ended, has a
\* response.
C8_ExecutorContainsFailures ==
    /\ \A r \in raised : ~(r.fn = "_execute_command" /\ r.exc # "AttributeError")
    /\ \A c \in Conns :
         \A i \in 1..rd[c] :
             (sent[c][i].form = "object" /\ ~Running(c, i)) => Answered(c, i)

\* some connection's exec of "x=1" has been answered with success
BoundX ==
    \E d \in Conns :
        \E k \in 1..Len(out[d]) :
            /\ out[d][k].re > 0 /\ out[d][k].success
            /\ sent[d][out[d][k].re] = request("exec", "x=1")

\* c's newest response is new in this step and answers an eval of "x"
EvalXAnswered(c) ==
    /\ Len(out'[c]) = Len(out[c]) + 1
    /\ out'[c][Len(out'[c])].re > 0
    /\ sent[c][out'[c][Len(out'[c])].re] = request("eval", "x")

\* C9: the namespace changes only in a step that enters _execute_command, and
\* once any connection's exec has bound x, every later eval of x on any
\* connection returns the bound value.
C9_NamespaceShared ==
    [][/\ namespace' # namespace => \E c \in Conns : nexec'[c] = nexec[c] + 1
       /\ \A c \in Conns :
            (BoundX /\ EvalXAnswered(c)) =>
                /\ out'[c][Len(out'[c])].success
                /\ out'[c][Len(out'[c])].result = "1"]_vars

\* C9 witness: x was bound through connection 1 and read through connection 2
C9_Witness ==
    /\ Answered(1, 2) /\ sent[1][2] = request("exec", "x=1")
    /\ Len(sent[2]) >= 2 /\ sent[2][2] = request("eval", "x")
    /\ \E k \in 1..Len(out[2]) : out[2][k].re = 2 /\ out[2][k].result = "1"

\* C10: _execute_command is entered only while no other call of it is in
\* flight.
C10_ExecutorNotReentered ==
    [][\A c \in Conns : nexec'[c] # nexec[c] => InFlight = 0]_vars

\* all the text the code of line i of connection c writes
OwnText(c, i) ==
    stdout_of(sent[c][i], c, i, "all") \o stdout_of(sent[c][i], c, i, "before")
        \o stdout_of(sent[c][i], c, i, "after")

\* slot _on_ready_read(d) runs inside the event loop of a command of c
Nested(c, d) ==
    \E p, q \in 1..Len(stack) :
        /\ p < q
        /\ stack[p].k = "exec" /\ stack[p].c = c
        /\ stack[q].k = "rr" /\ stack[q].c = d

InnermostCall(stk) ==
    LET calls == {i \in 1..Len(stk) : stk[i].k = "exec"}
    IN  IF calls = {} THEN 0 ELSE CHOOSE i \in calls : \A j \in calls : j <= i

\* C19: a step in which an _execute_command call begins and ends leaves
\* sys.stdout what it was; the end of a call that ran an event loop puts back
\* the stream the call found; so sys.stdout is always the stream of the
\* innermost call still in progress, the process's own stream if there is none.
C19_StdoutRestored ==
    [][/\ ((\E c \in Conns : nexec'[c] # nexec[c]) /\ InFlight' = InFlight)
           => sys_stdout' = sys_stdout
       /\ InFlight' < InFlight => sys_stdout' = Top.old
       /\ sys_stdout' = InnermostCall(stack')]_vars

\* C19 witness: two calls for connection d (its auth line and a command)
\* have begun and ended inside the event loop of a command of c, and
\* sys.stdout is again the StringIO of that command
C19_Witness ==
    \E c, d \in Conns :
        /\ c # d /\ Nested(c, d)
        /\ nexec[d] >= 2 /\ rd[d] = nexec[d]
        /\ sys_stdout = InnermostCall(stack) /\ sys_stdout > 0

\* C12: once stop() has run the server does not listen, both lists are empty
\* and no socket is left open: every connection tracked when stop() ran is
\* closed, and one whose peer had gone was dropped from the approved list
\* before.  A second stop() would change nothing: there is nothing for it to
\* close or clear.
C12_StopClosesAll ==
    server = "stopped" =>
        /\ approved_connections = <<>> /\ pending_connections = <<>>
        /\ \A c \in Conns :
             /\ sock[c] # "open"
             /\ sock[c] = "peerclosed" => WasApproved(c)
        /\ stop_sock = sock

\* C12 witness: stop() ran while c was approved and the dialog for d was open
C12_Witness ==
    /\ server = "stopped"
    /\ \E c, d \in Conns :
         /\ WasApproved(c) /\ sock[c] = "closed"
         /\ asked[d] = 1 /\ answer[d] = "none" /\ sock[d] = "closed"

\* C13: every response to a line (those of the approval step, re = 0, are not
\* command responses) has success true, a result key and no error key, or
\* success false, an error key and no result key.
C13_ResponseShape ==
    \A c \in Conns :
        \A k \in 1..Len(out[c]) :
            out[c][k].re > 0 =>
                \/ /\ out[c][k].success
                   /\ out[c][k].result # Absent /\ out[c][k].error = Absent
                \/ /\ ~out[c][k].success
                   /\ out[c][k].error # Absent /\ out[c][k].result = Absent

\* C13 witness: one connection has been sent a success with a null result (an
\* exec), responses to invalid JSON and to failing code are on record
C13_Witness ==
    /\ \E c \in Conns : \E k \in 1..Len(out[c]) :
          out[c][k].re > 0 /\ out[c][k].success /\ out[c][k].result = Null
    /\ \E c \in Conns : \E k \in 1..Len(out[c]) :
          out[c][k].re > 0 /\ ~out[c][k].success /\ out[c][k].traceback # Absent

\* C14: for a command line client that sent its auth message and one command,
\* was approved and has had its command answered, the exit status is 0 exactly
\* when the response to the command (line 2) has success true, however the
\* responses are split over the reads.
C14_ExitCodeIsSuccess ==
    \A c \in Conns :
        ( /\ Len(sent[c]) = 2 /\ sent[c][2].form = "object"
          /\ WasApproved(c) /\ Answered(c, 2)
          /\ Wire(c) = out[c] ) =>
            \A n \in 1..(Len(out[c]) - 1) :
                \A k \in 1..Len(out[c]) :
                    out[c][k].re = 2 => (main(c, n) = 0 <=> out[c][k].success)

\* C16: _request_approval is called at most once for a connection, and only
\* when the connection's first line has arrived and is an auth request.
C16_ApprovalAfterAuth ==
    [][\A c \in Conns :
         asked'[c] # asked[c] =>
             /\ asked[c] = 0
             /\ sent[c] # <<>> /\ sent[c][1].type = "auth"]_vars

\* C17: a connection is placed in the approved list only from the pending
\* list and only while its socket is open: one that the peer or stop() has
\* closed is never placed there afterwards; no connection is ever pending or
\* approved again after it has left those lists.
C17_ClosedIsFinal ==
    [][\A c \in Conns :
         /\ (Contains(approved_connections', c) /\ ~Contains(approved_connections, c))
              => (Contains(pending_connections, c) /\ sock[c] = "open")
         /\ (Contains(pending_connections', c) /\ ~Contains(pending_connections, c))
              => sock[c] = "none"]_vars

\* C18: whenever no slot is running, every connection in the approved list is
\* open: one whose peer has disconnected, or that stop() has closed, is not in
\* the list.
C18_ApprovedAreOpen ==
    (stack = <<>> /\ ~crashed) =>
        \A c \in Conns : Contains(approved_connections, c) => sock[c] = "open"

\* line i of c is one of: invalid JSON, JSON that is no object, an object
\* without 'code' or with a 'type' other than exec and eval
Malformed(c, i) ==
    \/ sent[c][i].form \in {"notjson", "scalar"}
    \/ /\ sent[c][i].form = "object"
       /\ (sent[c][i].code = Absent \/ sent[c][i].type \notin {"exec", "eval"})

\* C20: every such line that has been read off a connection has exactly one
\* response, and the responses of a connection are in the order of its lines.
C20_EveryLineAnswered ==
    \A c \in Conns :
        /\ \A i \in 1..rd[c] :
             Malformed(c, i) => Cardinality({k \in 1..Len(out[c]) : out[c][k].re = i}) = 1
        /\ \A k, l \in 1..Len(out[c]) : k < l => out[c][k].re < out[c][l].re

\* the place in the order of arrival of line i >= 2 of connection c, and
\* whether c was approved when the line arrived
ArrivalOf(c, i) ==
    CHOOSE p \in 1..Len(arrived) :
        arrived[p].c = c /\ Cardinality({q \in 1..p : arrived[q].c = c}) = i - 1

\* C15: when a command (a line after the auth line) is handed to
\* _execute_command, no other call is in flight, and no command that another
\* approved connection's client sent earlier, after its approval, is still
\* waiting to be executed.
C15_ExecutedInArrivalOrder ==
    [][\A c \in Conns :
         (nexec'[c] # nexec[c] /\ rd[c] >= 1) =>
             /\ InFlight = 0
             /\ \A d \in Conns \ {c} :
                  \A j \in (rd[d] + 1)..Len(sent[d]) :
                      ( /\ j >= 2 /\ sent[d][j].form \in {"object", "scalar"}
                        /\ Contains(approved_connections, d)
                        /\ arrived[ArrivalOf(d, j)].approved )
                          => ArrivalOf(d, j) > ArrivalOf(c, rd[c] + 1)]_vars

\* C22: the approval step never raises; a connection whose decision has
\* returned is in neither list once the server is stopped; and none whose
\* decision returned without an approval being written has had a line
\* executed.
C22_StopDuringDialog ==
    /\ \A r \in raised : r.fn # "_on_new_connection"
    /\ \A c \in Conns :
         /\ (server = "stopped" /\ answer[c] # "none") =>
                (~Contains(approved_connections, c) /\ ~Contains(pending_connections, c))
         /\ (answer[c] # "none" /\ ~WasApproved(c)) => nexec[c] = 0

\* c has left Pending: it is not in pending_connections and it has been sent
\* an approval or a rejection or has been closed; or the process was aborted,
\* which closes every socket
Resolved(c) ==
    \/ crashed
    \/ /\ ~Contains(pending_connections, c)
       /\ (WasApproved(c) \/ WasRejected(c) \/ sock[c] = "closed")

CodeExecuted(c) == Len(sent[c]) >= 2 /\ rd[c] >= 2

\* C23: one call of send_command makes the server execute the code at most
\* once and open at most one approval dialog, also when the first attempt
\* ended in a rejection or a timeout and the call retried.
C23_RetryAtMostOnce ==
    /\ Cardinality({c \in Conns : CodeExecuted(c)}) <= 1
    /\ Cardinality({c \in Conns : asked[c] > 0}) <= 1

=============================================================================
